---- MODULE Spec2Model ----
(***************************************************************************)
(* A model of serious_django_services: the class-definition-time checks of *)
(* ServiceMetaclass and CRUDMixinMetaclass, the two guard checks of        *)
(* Service, and the four CRUD operations of CRUDMixin.                     *)
(*                                                                         *)
(* Three specifications share the module:                                  *)
(*   SpecDef    class statements (the metaclass hooks)                     *)
(*   SpecGuard  require_signed_in / require_permissions                    *)
(*   SpecCrud   _create / _retrieve / _update / _delete on a store         *)
(***************************************************************************)
EXTENDS Naturals, Sequences, FiniteSets, TLC

VARIABLES
    defined,      \* class statements: the service class bound by the latest
                  \* successful class statement (a set with at most one class)
    defResult,    \* class statements: the latest class statement and its outcome
    guardResult,  \* guard checks: the latest call, its outcome and has_perm queries
    store,        \* CRUD: cls.model.objects, a function from ids to entities
    crudResult,   \* CRUD: the latest call, its outcome and the store lookups it made
    deleted       \* CRUD, history: the keys whose delete returned True and that
                  \* no create has produced since

vars == <<defined, defResult, guardResult, store, crudResult, deleted>>

(***************************************************************************)
(* Python values                                                           *)
(***************************************************************************)
\* A Python value of a class attribute that holds a container (or nothing).
Absent == [kind |-> "absent", items |-> <<>>]    \* the attribute is not set
PyNone == [kind |-> "none", items |-> <<>>]
PyTuple(s) == [kind |-> "tuple", items |-> s]
PyList(s) == [kind |-> "list", items |-> s]

\* Names are sequences of characters, so that endswith is computed.
SERVICE == <<"S", "e", "r", "v", "i", "c", "e">>

\* str.endswith
EndsWith(s, suffix) ==
    /\ Len(s) >= Len(suffix)
    /\ SubSeq(s, Len(s) - Len(suffix) + 1, Len(s)) = suffix

(***************************************************************************)
(* Elements that a service_exceptions container may hold                   *)
(***************************************************************************)
\* Exception classes created by type
ExceptionClasses ==
    {"PermissionDenied", "ValidationError", "ObjectDoesNotExist", "ValueError"}
\* A class that is not an exception; a value that is not a class at all
OtherClasses == {"int"}
NonClasses == {"a str instance"}

\* type(c) is type
TypeIsType(c) == c \in ExceptionClasses \cup OtherClasses
\* issubclass(c, Exception); only evaluated for classes
IsSubclassOfException(c) == c \in ExceptionClasses

\* all(type(c) is type and issubclass(c, Exception) for c in svc_excs)
AllExceptionTypes(items) ==
    \A i \in 1..Len(items) : TypeIsType(items[i]) /\ IsSubclassOfException(items[i])

(***************************************************************************)
(* Classes                                                                 *)
(***************************************************************************)
\* A class attribute that holds a single object (model, create_form, ...)
AttrAbsent == "<absent>"
AttrNone == "None"

\* abc.ABC: the base of the two abstract roots
ABC ==
    [name |-> <<"A", "B", "C">>, meta |-> "ABCMeta",
     service_exceptions |-> Absent, base_exceptions |-> Absent, exceptions |-> Absent,
     model |-> AttrAbsent, create_form |-> AttrAbsent, update_form |-> AttrAbsent]

\* The body of a class statement that declares nothing
EmptyNamespace ==
    [service_exceptions |-> Absent, base_exceptions |-> Absent,
     model |-> AttrAbsent, create_form |-> AttrAbsent, update_form |-> AttrAbsent]

\* type.__new__: the class object, whose attributes are looked up in its own
\* namespace first and in its bases after it. The CRUD extension contributes
\* none of these attributes, so the lookup ends in the first base.
TypeNew(meta, name, base, ns) ==
    [name |-> name, meta |-> meta,
     service_exceptions |->
        IF ns.service_exceptions # Absent THEN ns.service_exceptions
        ELSE base.service_exceptions,
     base_exceptions |->
        IF ns.base_exceptions # Absent THEN ns.base_exceptions
        ELSE base.base_exceptions,
     exceptions |-> base.exceptions,
     model |-> IF ns.model # AttrAbsent THEN ns.model ELSE base.model,
     create_form |->
        IF ns.create_form # AttrAbsent THEN ns.create_form ELSE base.create_form,
     update_form |->
        IF ns.update_form # AttrAbsent THEN ns.update_form ELSE base.update_form]

\* What a class statement ends in: the class, or the error raised
Created(cls) == [cls |-> cls, outcome |-> "ok", message |-> <<>>]
Raised(exc, msg, cls) == [cls |-> cls, outcome |-> exc, message |-> msg]

NameMessage == <<"A Service subclass name must end with Service.">>
ServiceExceptionsMessage ==
    <<"Defined a service without an service_exceptions property. ",
      "Define a service_exceptions property which should be a tuple ",
      "of subclasses of Exception, and enumerates all service-specific ",
      "exceptions that a service can throw.">>
\* the f-string: config_param, then " has to be set in the class using the Mixin!"
ConfigParamMessage(config_param) ==
    <<config_param, " has to be set in the class using the Mixin!">>

\* tuple(x or [])
TupleOrEmpty(x) == IF x.kind = "none" \/ x.items = <<>> THEN <<>> ELSE x.items

\* Mutant: the base set is put in front of the declared exceptions.
ComputeExceptionsBaseFirst(cls) ==
    PyTuple(TupleOrEmpty(cls.base_exceptions) \o TupleOrEmpty(cls.service_exceptions))

\* cls.exceptions = tuple(cls.service_exceptions or []) + tuple(cls.base_exceptions or [])
ComputeExceptions(cls) ==
    PyTuple(TupleOrEmpty(cls.service_exceptions) \o TupleOrEmpty(cls.base_exceptions))

\* ServiceMetaclass.__new__
ServiceMetaclassNew(meta, name, base, ns) ==
    LET cls == TypeNew(meta, name, base, ns)
        svc_excs == cls.service_exceptions
    IN  IF base = ABC THEN Created(cls)
        ELSE IF ~EndsWith(name, SERVICE)
        THEN Raised("ImproperlyConfigured", NameMessage, cls)
        ELSE IF svc_excs = Absent
        THEN Raised("AttributeError", <<"service_exceptions">>, cls)
        ELSE IF \/ svc_excs = PyNone
                \/ svc_excs.kind # "tuple"
                \/ ~AllExceptionTypes(svc_excs.items)
        THEN Raised("ImproperlyConfigured", ServiceExceptionsMessage, cls)
        ELSE IF cls.base_exceptions = Absent
        THEN Raised("AttributeError", <<"base_exceptions">>, cls)
        ELSE Created([cls EXCEPT !.exceptions = ComputeExceptions(cls)])

\* Mutant: the forms are checked before the model.
required_params_forms_first == <<"create_form", "update_form", "model">>

\* CRUDMixinMetaclass.check_required_config_params
required_params == <<"model", "create_form", "update_form">>

\* getattr(cls, config_param, None)
GetConfigParam(cls, config_param) ==
    LET v == CASE config_param = "model" -> cls.model
               [] config_param = "create_form" -> cls.create_form
               [] config_param = "update_form" -> cls.update_form
    IN  IF v = AttrAbsent THEN AttrNone ELSE v

RECURSIVE CheckFrom(_, _)
CheckFrom(cls, i) ==
    IF i > Len(required_params) THEN Created(cls)
    ELSE IF GetConfigParam(cls, required_params[i]) = AttrNone
    THEN Raised("ImproperlyConfigured", ConfigParamMessage(required_params[i]), cls)
    ELSE CheckFrom(cls, i + 1)

check_required_config_params(cls) == CheckFrom(cls, 1)

\* CRUDMixinMetaclass.__new__
CRUDMixinMetaclassNew(meta, name, base, ns) ==
    LET r == ServiceMetaclassNew(meta, name, base, ns)
    IN  IF r.outcome # "ok" THEN r
        ELSE IF base = ABC THEN r
        ELSE check_required_config_params(r.cls)

\* The class statement: the most derived metaclass of the bases is called.
ClassStatement(meta, name, base, ns) ==
    IF meta = "CRUDMixinMetaclass"
    THEN CRUDMixinMetaclassNew(meta, name, base, ns)
    ELSE ServiceMetaclassNew(meta, name, base, ns)

\* class Service(ABC, metaclass=ServiceMetaclass): base_exceptions = (PermissionDenied,)
Service ==
    ClassStatement("ServiceMetaclass", SERVICE, ABC,
        [EmptyNamespace EXCEPT !.base_exceptions = PyTuple(<<"PermissionDenied">>)]).cls

\* class CRUDMixin(ABC, metaclass=CRUDMixinMetaclass)
CRUDMixin ==
    ClassStatement("CRUDMixinMetaclass",
        <<"C", "R", "U", "D", "M", "i", "x", "i", "n">>, ABC, EmptyNamespace).cls

(***************************************************************************)
(* Class statements                                                        *)
(***************************************************************************)
FooService == <<"F", "o", "o">> \o SERVICE
ServiceFoo == SERVICE \o <<"F", "o", "o">>
ClassNames == {FooService, ServiceFoo}

\* The values a class body gives service_exceptions (Absent: it gives none)
ServiceExceptionsDecls ==
    {Absent, PyNone,
     PyTuple(<<>>),
     PyTuple(<<"ValidationError", "ObjectDoesNotExist">>),
     PyTuple(<<"ValidationError", "int">>),
     PyTuple(<<"a str instance">>),
     PyList(<<"ValidationError">>)}

ModelDecls == {AttrAbsent, AttrNone, "Foo"}
CreateFormDecls == {AttrAbsent, AttrNone, "CreateFooForm"}
UpdateFormDecls == {AttrAbsent, AttrNone, "UpdateFooForm"}

\* The metaclass of class name(base) and of class name(base, CRUDMixin)
MetaclassOf(base, mixin) ==
    IF mixin \/ base.meta = CRUDMixin.meta THEN CRUDMixin.meta ELSE Service.meta

\* The class bodies: a class that does not use the CRUD extension declares
\* none of its configuration parameters.
Namespaces(meta) ==
    {[EmptyNamespace EXCEPT !.service_exceptions = se, !.model = m,
                            !.create_form = cf, !.update_form = uf] :
        se \in ServiceExceptionsDecls,
        m \in IF meta = CRUDMixin.meta THEN ModelDecls ELSE {AttrAbsent},
        cf \in IF meta = CRUDMixin.meta THEN CreateFormDecls ELSE {AttrAbsent},
        uf \in IF meta = CRUDMixin.meta THEN UpdateFormDecls ELSE {AttrAbsent}}

\* A class statement  class name(base[, CRUDMixin]): <ns>  where base is
\* Service or the service class defined before. The name is bound only when
\* the metaclass returns.
Define(name, base, mixin, ns) ==
    LET meta == MetaclassOf(base, mixin)
        r == ClassStatement(meta, name, base, ns)
    IN  /\ defResult' = [name |-> name, meta |-> meta, base |-> base, ns |-> ns,
                         outcome |-> r.outcome, message |-> r.message]
        /\ defined' = IF r.outcome = "ok" THEN {r.cls} ELSE defined
        /\ UNCHANGED <<guardResult, store, crudResult, deleted>>

DefineService ==
    \E name \in ClassNames, base \in {Service} \cup defined :
        \E ns \in Namespaces(MetaclassOf(base, FALSE)) :
            Define(name, base, FALSE, ns)

DefineCRUDService ==
    \E name \in ClassNames, base \in {Service} \cup defined :
        \E ns \in Namespaces(MetaclassOf(base, TRUE)) :
            Define(name, base, TRUE, ns)

\* After the module is imported: Service and CRUDMixin are defined, CRUDMixin last.
InitDef ==
    /\ defined = {}
    /\ defResult = [name |-> CRUDMixin.name, meta |-> CRUDMixin.meta, base |-> ABC,
                    ns |-> EmptyNamespace, outcome |-> "ok", message |-> <<>>]

(***************************************************************************)
(* Guard checks                                                            *)
(***************************************************************************)
MaxPerms == 2    \* the longest list of permissions passed to require_permissions

\* A permission is a str (a sequence of characters) or a Permission object.
PyStr(chars) == [kind |-> "str", items |-> chars]
PermissionObject(name) == [kind |-> "Permission", items |-> <<name>>]

PermissionValues ==
    {PyStr(<<"p", "1">>), PyStr(<<"p">>), PyStr(<<"1">>), PermissionObject("can_edit")}

RECURSIVE SeqsUpTo(_, _)
SeqsUpTo(S, n) ==
    IF n = 0 THEN {<<>>}
    ELSE LET shorter == SeqsUpTo(S, n - 1)
         IN  shorter \cup {Append(q, x) : q \in shorter, x \in S}

PermissionLists == {PyList(q) : q \in SeqsUpTo(PermissionValues, MaxPerms)}

\* The users: None, the AnonymousUser, and instances of the user model with
\* the permissions their backend grants them.
NoneUser == [kind |-> "None", is_anonymous |-> FALSE, granted |-> {}]
AnonymousUser == [kind |-> "AnonymousUser", is_anonymous |-> TRUE, granted |-> {}]
ModelUsers ==
    {[kind |-> "User", is_anonymous |-> FALSE, granted |-> g] :
        g \in SUBSET PermissionValues}
    \cup {[kind |-> "User", is_anonymous |-> TRUE, granted |-> PermissionValues]}
Users == {NoneUser, AnonymousUser} \cup ModelUsers

Objects == {"None", "an object"}

\* isinstance(user, get_user_model())
IsUserModelInstance(user) == user.kind = "User"

\* user.has_perm(permission, obj=obj)
has_perm(user, permission, obj) == permission \in user.granted

\* isinstance(permissions, collections.Iterable)
IsIterable(x) == x.kind \in {"str", "list"}

\* What the for loop draws from an iterable: the items of a list, the
\* one-character strings of a str.
Iterate(x) ==
    IF x.kind = "str" THEN [i \in 1..Len(x.items) |-> PyStr(<<x.items[i]>>)]
    ELSE x.items

GuardOk(queries) == [outcome |-> "ok", message |-> <<>>, queries |-> queries]
Denied(msg, queries) ==
    [outcome |-> "PermissionDenied", message |-> msg, queries |-> queries]

\* Service.require_signed_in
RequireSignedIn(user) ==
    IF ~IsUserModelInstance(user) \/ user.is_anonymous
    THEN Denied(<<"You are not logged in.">>, <<>>)
    ELSE GuardOk(<<>>)

\* Mutant: the loop asks for every permission and fails afterwards.
RECURSIVE PermissionLoopAskAll(_, _, _, _, _)
PermissionLoopAskAll(user, perms, obj, i, queries) ==
    IF i > Len(perms)
    THEN IF \E j \in 1..Len(perms) : ~has_perm(user, perms[j], obj)
         THEN Denied(<<"You do not have permission ">>, queries)
         ELSE GuardOk(queries)
    ELSE PermissionLoopAskAll(user, perms, obj, i + 1,
                              Append(queries, <<perms[i], obj>>))

\* The loop of require_permissions from its i-th permission on
RECURSIVE PermissionLoop(_, _, _, _, _)
PermissionLoop(user, perms, obj, i, queries) ==
    IF i > Len(perms) THEN GuardOk(queries)
    ELSE LET asked == Append(queries, <<perms[i], obj>>)
         IN  IF ~has_perm(user, perms[i], obj)
             THEN Denied(<<"You do not have permission ", perms[i]>>, asked)
             ELSE PermissionLoop(user, perms, obj, i + 1, asked)

\* Service.require_permissions
RequirePermissions(user, permissions, obj) ==
    LET signed == RequireSignedIn(user)
        perms == IF ~IsIterable(permissions) THEN <<permissions>>
                 ELSE Iterate(permissions)
    IN  IF signed.outcome # "ok" THEN signed
        ELSE PermissionLoop(user, perms, obj, 1, <<>>)

GuardCall(op, user, permissions, obj, r) ==
    /\ guardResult' = [outcome |-> r.outcome, message |-> r.message,
                       user |-> user, obj |-> obj, queries |-> r.queries,
                       permissions |-> permissions, op |-> op]
    /\ UNCHANGED <<defined, defResult, store, crudResult, deleted>>

require_signed_in ==
    \E user \in Users :
        GuardCall("require_signed_in", user, PyList(<<>>), "None",
                  RequireSignedIn(user))

require_permissions ==
    \E user \in Users, obj \in Objects :
        \/ \E permission \in PermissionValues :
              GuardCall("require_permissions", user, permission, obj,
                        RequirePermissions(user, permission, obj))
        \/ \E permissions \in PermissionLists :
              GuardCall("require_permissions", user, permissions, obj,
                        RequirePermissions(user, permissions, obj))

InitGuard ==
    guardResult = [outcome |-> "ok", message |-> <<>>, user |-> NoneUser,
                   obj |-> "None", queries |-> <<>>,
                   permissions |-> PyList(<<>>), op |-> "none"]

(***************************************************************************)
(* CRUD operations                                                         *)
(***************************************************************************)
MaxId == 2    \* the largest primary key the store hands out

\* The service class of the tests: class FooService(Service, CRUDMixin) with
\* service_exceptions = (), model = Foo and the two forms.
FooServiceClass ==
    ClassStatement(MetaclassOf(Service, TRUE), FooService, Service,
        [EmptyNamespace EXCEPT !.service_exceptions = PyTuple(<<>>),
                               !.model = "Foo",
                               !.create_form = "CreateFooForm",
                               !.update_form = "UpdateFooForm"]).cls

\* The fields of the model that its forms edit: a plain field and a file field.
RegularFields == {"name"}
FileFields == {"doc"}
FormFields == RegularFields \cup FileFields

Blank == ""                    \* what a field holds when nothing was given
DataValues == {"a", "bad"}     \* the values callers pass; the forms reject "bad"

\* Python dicts are functions on their keys; a dict argument may be None.
EmptyDict == <<>>
Dicts(keys, values) == UNION {[ks -> values] : ks \in SUBSET keys}
PyDict(d) == [kind |-> "dict", map |-> d]
NoneDict == [kind |-> "none", map |-> EmptyDict]

DataArgs == Dicts(FormFields, DataValues)
FileDataArgs ==
    {NoneDict} \cup {PyDict(d) : d \in Dicts(FileFields, DataValues) \ {EmptyDict}}

\* dict(base, **overrides)
DictUpdate(base, overrides) ==
    [k \in DOMAIN base \cup DOMAIN overrides |->
        IF k \in DOMAIN overrides THEN overrides[k] ELSE base[k]]

\* file_data if file_data else {}
DictOrEmpty(file_data) ==
    IF file_data.kind = "none" \/ DOMAIN file_data.map = {} THEN EmptyDict
    ELSE file_data.map

\* The ids callers pass: ints, and strs.
IntId(n) == [kind |-> "int", chars |-> <<>>, int |-> n]
StrId(chars) == [kind |-> "str", chars |-> chars, int |-> 0]
IdArgs == {IntId(n) : n \in 1..MaxId} \cup {StrId(<<"1">>), StrId(<<"a", "b", "c">>)}

\* isinstance(id, int)
IsInt(id) == id.kind = "int"

\* int(): what the primary key field makes of the value of a lookup
Digits == <<"0", "1", "2", "3", "4", "5", "6", "7", "8", "9">>
IsDigit(c) == \E d \in 1..Len(Digits) : Digits[d] = c
DigitValue(c) == (CHOOSE d \in 1..Len(Digits) : Digits[d] = c) - 1

RECURSIVE ParseDigits(_, _)
ParseDigits(chars, n) ==
    IF n = 0 THEN 0 ELSE 10 * ParseDigits(chars, n - 1) + DigitValue(chars[n])

IntOf(id) ==
    IF IsInt(id) THEN [int |-> id.int, ok |-> TRUE]
    ELSE IF Len(id.chars) > 0 /\ \A i \in 1..Len(id.chars) : IsDigit(id.chars[i])
    THEN [int |-> ParseDigits(id.chars, Len(id.chars)), ok |-> TRUE]
    ELSE [int |-> 0, ok |-> FALSE]

\* cls.model.objects.get(id=id)
Get(st, id) ==
    LET key == IntOf(id)
    IN  IF ~key.ok THEN [key |-> 0, raised |-> "ValueError"]
        ELSE IF key.int \notin DOMAIN st
        THEN [key |-> 0, raised |-> "ObjectDoesNotExist"]
        ELSE [key |-> key.int, raised |-> "none"]

\* model_to_dict(instance): the primary key and the editable fields
model_to_dict(st, key) ==
    [f \in {"id"} \cup FormFields |-> IF f = "id" THEN key ELSE st[key][f]]

\* What a bound form reads for a field: a file field from the files, any
\* other field from the data. A file field that got nothing keeps the file of
\* the instance the form is bound to.
FieldValue(field, data, files, initial) ==
    LET given == IF field \in FileFields THEN files ELSE data
        value == IF field \in DOMAIN given THEN given[field] ELSE Blank
    IN  IF field \in FileFields /\ value = Blank THEN initial[field] ELSE value

CleanedData(data, files, initial) ==
    [f \in FormFields |-> FieldValue(f, data, files, initial)]

\* bound_form.is_valid()
IsValid(cleaned) == \A f \in FormFields : cleaned[f] # "bad"

BlankInstance == [f \in FormFields |-> Blank]

\* bound_form.save(): the entity under its key
Save(st, key, cleaned) ==
    [k \in DOMAIN st \cup {key} |-> IF k = key THEN cleaned ELSE st[k]]

\* instance.delete()
Remove(st, key) == [k \in DOMAIN st \ {key} |-> st[k]]

Returned(st, ret, lookups) ==
    [store |-> st, raised |-> "none", ret |-> ret, lookups |-> lookups]
Failed(st, exc, lookups) ==
    [store |-> st, raised |-> exc, ret |-> "none", lookups |-> lookups]

\* Mutant: the form is saved before it is validated.
CreateSavesFirst(st, newId, data, file_data) ==
    LET cleaned == CleanedData(data, DictOrEmpty(file_data), BlankInstance)
    IN  IF IsValid(cleaned)
        THEN Returned(Save(st, newId, cleaned), "instance", <<>>)
        ELSE Failed(Save(st, newId, cleaned), "ValidationError", <<>>)

\* CRUDMixin._create; newId is the primary key the store gives a new entity
Create(st, newId, data, file_data) ==
    LET cleaned == CleanedData(data, DictOrEmpty(file_data), BlankInstance)
    IN  IF IsValid(cleaned)
        THEN Returned(Save(st, newId, cleaned), "instance", <<>>)
        ELSE Failed(st, "ValidationError", <<>>)

\* CRUDMixin._retrieve
Retrieve(st, id) ==
    IF ~IsInt(id) THEN Failed(st, "ValueError", <<>>)
    ELSE LET got == Get(st, id)
         IN  IF got.raised # "none" THEN Failed(st, got.raised, <<id>>)
             ELSE Returned(st, "instance", <<id>>)

\* CRUDMixin._update
Update(st, id, data, file_data) ==
    LET got == Get(st, id)
    IN  IF got.raised # "none" THEN Failed(st, got.raised, <<id>>)
        ELSE LET updated_model_data ==
                    DictUpdate(model_to_dict(st, got.key), data)
                 updated_model_file_data ==
                    DictUpdate(model_to_dict(st, got.key), DictOrEmpty(file_data))
                 cleaned ==
                    CleanedData(updated_model_data, updated_model_file_data,
                                st[got.key])
             IN  IF IsValid(cleaned)
                 THEN Returned(Save(st, got.key, cleaned), "instance", <<id>>)
                 ELSE Failed(st, "ValidationError", <<id>>)

\* Mutant: the instance is looked up and True returned, but nothing is deleted.
DeleteKeepsInstance(st, id) ==
    LET got == Get(st, id)
    IN  IF got.raised # "none" THEN Failed(st, got.raised, <<id>>)
        ELSE Returned(st, "True", <<id>>)

\* CRUDMixin._delete
Delete(st, id) ==
    LET got == Get(st, id)
    IN  IF got.raised # "none" THEN Failed(st, got.raised, <<id>>)
        ELSE Returned(Remove(st, got.key), "True", <<id>>)

NoId == IntId(0)

CrudCall(op, id, data, file_data, r) ==
    /\ store' = r.store
    /\ crudResult' = [op |-> op, file_data |-> file_data, id |-> id,
                      raised |-> r.raised, data |-> data, ret |-> r.ret,
                      lookups |-> r.lookups]
    /\ deleted' = (deleted \cup (IF op = "delete" /\ r.raised = "none"
                                 THEN {IntOf(id).int} ELSE {}))
                  \ (DOMAIN r.store \ DOMAIN store)
    /\ UNCHANGED <<defined, defResult, guardResult>>

\* The keys a new entity may get; 0 stands in when the store is full, where
\* only a create that the form rejects is followed.
FreeIds(st) == (1..MaxId) \ DOMAIN st
NewIds(st, data, file_data) ==
    IF FreeIds(st) # {} THEN FreeIds(st)
    ELSE IF Create(st, 0, data, file_data).raised # "none" THEN {0}
    ELSE {}

_create ==
    \E data \in DataArgs, file_data \in FileDataArgs :
        \E newId \in NewIds(store, data, file_data) :
            CrudCall("create", NoId, data, file_data,
                     Create(store, newId, data, file_data))

_retrieve ==
    \E id \in IdArgs :
        CrudCall("retrieve", id, EmptyDict, NoneDict, Retrieve(store, id))

_update ==
    \E id \in IdArgs, data \in DataArgs, file_data \in FileDataArgs :
        CrudCall("update", id, data, file_data, Update(store, id, data, file_data))

_delete ==
    \E id \in IdArgs :
        CrudCall("delete", id, EmptyDict, NoneDict, Delete(store, id))

InitCrud ==
    /\ store = EmptyDict
    /\ deleted = {}
    /\ crudResult = [op |-> "none", file_data |-> NoneDict, id |-> NoId,
                     raised |-> "none", data |-> EmptyDict, ret |-> "none",
                     lookups |-> <<>>]

(***************************************************************************)
(* Specifications                                                          *)
(***************************************************************************)
Init == InitDef /\ InitGuard /\ InitCrud

NextDef == DefineService \/ DefineCRUDService
NextGuard == require_signed_in \/ require_permissions
NextCrud == _create \/ _retrieve \/ _update \/ _delete

SpecDef == Init /\ [][NextDef]_vars
SpecGuard == Init /\ [][NextGuard]_vars
SpecCrud == Init /\ [][NextCrud]_vars

(***************************************************************************)
(* Properties: class statements (SpecDef)                                  *)
(***************************************************************************)
\* What getattr finds for service_exceptions in the class of the latest statement
DeclaredExceptions ==
    IF defResult.ns.service_exceptions # Absent THEN defResult.ns.service_exceptions
    ELSE defResult.base.service_exceptions

\* The latest statement defined a class other than an abstract root
LatestIsService == defResult.base # ABC

\* C1: a service class statement whose service_exceptions is missing, or whose
\* name does not end in "Service", or whose service_exceptions holds an element
\* that is not an exception class, ends in ImproperlyConfigured and in no other
\* error.
C1_MalformedEndsInImproperlyConfigured ==
    LET missing == DeclaredExceptions = Absent
        badName == ~EndsWith(defResult.name, SERVICE)
        nonException ==
            \E i \in 1..Len(DeclaredExceptions.items) :
                DeclaredExceptions.items[i] \notin ExceptionClasses
    IN  (LatestIsService /\ (missing \/ badName \/ nonException))
            => defResult.outcome = "ImproperlyConfigured"

\* C2: after a class statement that passes validation with service_exceptions
\* E (declared or inherited), the class's exceptions attribute is E followed by
\* PermissionDenied, element for element.
C2_ExceptionsIsDeclaredThenBase ==
    (LatestIsService /\ defResult.outcome = "ok") =>
        /\ defined # {}
        /\ \A cls \in defined :
            LET E == DeclaredExceptions.items
                got == cls.exceptions
            IN  /\ got.kind = "tuple"
                /\ Len(got.items) = Len(E) + 1
                /\ \A i \in 1..Len(E) : got.items[i] = E[i]
                /\ got.items[Len(E) + 1] = "PermissionDenied"

\* C2, reached: a class that declares no service_exceptions inherits two from
\* its parent service and is defined.
C2_InheritedWitness ==
    /\ LatestIsService
    /\ defResult.outcome = "ok"
    /\ defResult.ns.service_exceptions = Absent
    /\ Len(defResult.base.service_exceptions.items) = 2
    /\ \E cls \in defined : Len(cls.exceptions.items) = 3

\* What getattr(cls, param, None) finds in the class of the latest statement
ParamIsSet(own, inherited) ==
    IF own # AttrAbsent THEN own # AttrNone
    ELSE inherited \notin {AttrAbsent, AttrNone}
ModelIsSet == ParamIsSet(defResult.ns.model, defResult.base.model)
CreateFormIsSet == ParamIsSet(defResult.ns.create_form, defResult.base.create_form)
UpdateFormIsSet == ParamIsSet(defResult.ns.update_form, defResult.base.update_form)

\* The latest statement defined a class that uses the CRUD extension and has a
\* valid name and valid service_exceptions
LatestIsValidCRUDService ==
    /\ LatestIsService
    /\ defResult.meta = "CRUDMixinMetaclass"
    /\ EndsWith(defResult.name, SERVICE)
    /\ DeclaredExceptions.kind = "tuple"
    /\ \A i \in 1..Len(DeclaredExceptions.items) :
            DeclaredExceptions.items[i] \in ExceptionClasses

HasToBeSet(param) ==
    /\ defResult.outcome = "ImproperlyConfigured"
    /\ defResult.message = <<param, " has to be set in the class using the Mixin!">>

\* C5: a class statement of a CRUD service with a valid name and
\* service_exceptions fails with ImproperlyConfigured naming the first of
\* model, create_form, update_form that is absent or None, and succeeds when
\* all three are set.
C5_FirstMissingParamIsNamed ==
    LatestIsValidCRUDService =>
        IF ~ModelIsSet THEN HasToBeSet("model")
        ELSE IF ~CreateFormIsSet THEN HasToBeSet("create_form")
        ELSE IF ~UpdateFormIsSet THEN HasToBeSet("update_form")
        ELSE defResult.outcome = "ok"

\* C5, reached: the model is set, both forms are missing, and create_form is named.
C5_MissingFormsWitness ==
    /\ LatestIsValidCRUDService
    /\ ModelIsSet /\ ~CreateFormIsSet /\ ~UpdateFormIsSet
    /\ HasToBeSet("create_form")

(***************************************************************************)
(* Properties: guard checks (SpecGuard)                                    *)
(***************************************************************************)
SignedIn == guardResult.user.kind = "User" /\ ~guardResult.user.is_anonymous

Query(permission) == <<permission, guardResult.obj>>

\* C3: require_permissions(actor, p, obj) with a single permission p behaves as
\* require_permissions(actor, [p], obj): signed in, it asks has_perm exactly once,
\* for (p, obj), and is denied exactly when the actor lacks p.
C3_SinglePermissionIsOneQuery ==
    (/\ guardResult.op = "require_permissions"
     /\ guardResult.permissions.kind # "list"
     /\ SignedIn) =>
        /\ guardResult.queries = <<Query(guardResult.permissions)>>
        /\ guardResult.outcome =
              IF guardResult.permissions \in guardResult.user.granted
              THEN "ok" ELSE "PermissionDenied"

\* C4: require_permissions(actor, [p1..pn], obj) denies an actor that is not
\* signed in with no has_perm query; otherwise it asks has_perm(pi, obj) in list
\* order up to and including the first pi the actor lacks, where it denies; it
\* returns normally only when it asked for every pi and the actor has them all.
C4_QueriesStopAtFirstLacking ==
    (guardResult.op = "require_permissions" /\ guardResult.permissions.kind = "list") =>
        LET ps == guardResult.permissions.items
            lacking == {i \in 1..Len(ps) : ps[i] \notin guardResult.user.granted}
            asked == IF lacking = {} THEN Len(ps)
                     ELSE CHOOSE i \in lacking : \A j \in lacking : i <= j
        IN  IF ~SignedIn
            THEN guardResult.outcome = "PermissionDenied" /\ guardResult.queries = <<>>
            ELSE /\ Len(guardResult.queries) = asked
                 /\ \A i \in 1..asked : guardResult.queries[i] = Query(ps[i])
                 /\ guardResult.outcome =
                        IF lacking = {} THEN "ok" ELSE "PermissionDenied"

\* C4, reached: a signed-in actor lacks the first of two permissions and holds
\* the second; one query was made.
C4_FirstLackingWitness ==
    /\ guardResult.op = "require_permissions"
    /\ guardResult.permissions.kind = "list"
    /\ Len(guardResult.permissions.items) = 2
    /\ SignedIn
    /\ guardResult.permissions.items[1] \notin guardResult.user.granted
    /\ guardResult.permissions.items[2] \in guardResult.user.granted
    /\ guardResult.outcome = "PermissionDenied"
    /\ Len(guardResult.queries) = 1

(***************************************************************************)
(* Properties: CRUD operations (SpecCrud)                                  *)
(***************************************************************************)
\* C6: once delete(id) has returned True, every later retrieve(id) and
\* delete(id) raises ObjectDoesNotExist until a create produces the id again;
\* and delete returns True only for an id that is in the store. (ids are
\* primary keys, that is ints.)
C6_DeletedIdIsNotFound ==
    [][LET r == crudResult'
       IN  /\ (r.op \in {"retrieve", "delete"} /\ IsInt(r.id) /\ r.id.int \in deleted)
                => r.raised = "ObjectDoesNotExist"
           /\ (r.op = "delete" /\ r.raised = "none" /\ IsInt(r.id))
                => (r.id.int \in DOMAIN store /\ r.id.int \notin DOMAIN store')
      ]_vars

\* C6, reached: a delete of a key that was deleted before raised ObjectDoesNotExist.
C6_DoubleDeleteWitness ==
    /\ crudResult.op = "delete"
    /\ IsInt(crudResult.id)
    /\ crudResult.id.int \in deleted
    /\ crudResult.raised = "ObjectDoesNotExist"

\* C7: a CRUD call that raises leaves the store as it was.
C7_FailedCallLeavesStore ==
    [][crudResult'.raised # "none" => store' = store]_vars

\* C7, reached: an update of an existing entity was rejected by the update form.
C7_RejectedUpdateWitness ==
    /\ crudResult.op = "update"
    /\ crudResult.raised = "ValidationError"
    /\ IsInt(crudResult.id)
    /\ crudResult.id.int \in DOMAIN store

\* C8: a successful update(id, data, file_data) sets the fields named in data
\* (and the file fields named in file_data) to the given values and leaves
\* every other field of the entity, and every other entity, as it was.
C8_UpdateSetsExactlyTheNamedFields ==
    [][LET r == crudResult'
           k == r.id.int
           files == IF r.file_data.kind = "none" THEN EmptyDict ELSE r.file_data.map
       IN  (r.op = "update" /\ r.raised = "none" /\ IsInt(r.id)) =>
              /\ DOMAIN store' = DOMAIN store
              /\ \A j \in DOMAIN store \ {k} : store'[j] = store[j]
              /\ \A f \in FormFields :
                    store'[k][f] =
                        IF f \in FileFields /\ f \in DOMAIN files THEN files[f]
                        ELSE IF f \in DOMAIN r.data THEN r.data[f]
                        ELSE store[k][f]
      ]_vars

\* C9: every error a CRUD operation of FooService raises is a member of
\* FooService.exceptions.
C9_RaisedErrorsAreCatalogued ==
    crudResult.raised # "none" =>
        \E i \in 1..Len(FooServiceClass.exceptions.items) :
            FooServiceClass.exceptions.items[i] = crudResult.raised

\* C10: retrieve, update and delete called with an id that is not an int raise
\* the type error (ValueError) without passing the id to the store lookup.
C10_NonIntIdIsRejected ==
    (crudResult.op \in {"retrieve", "update", "delete"} /\ ~IsInt(crudResult.id)) =>
        /\ crudResult.raised = "ValueError"
        /\ crudResult.lookups = <<>>

====
